---- MODULE Spec2Model ----
(***************************************************************************)
(* examples/tutorial/03_Alignment_and_Preprocessing.ipynb                  *)
(*                                                                         *)
(* The notebook is a straight-line program: its code cells are run once,   *)
(* top to bottom, in one kernel.  The state is the kernel's global         *)
(* namespace `ns` (name -> value), the index `pc` of the next code cell    *)
(* and the exception `error` that stopped the run, if any.                 *)
(*                                                                         *)
(* A labelled array (xarray.DataArray) is the record                       *)
(*   [x, y    : its coordinate arrays along the dims x and y (sequences),  *)
(*    band    : the labels along its band dim ({} when it has none),       *)
(*    lazy    : TRUE while its values are an unevaluated chunked graph,    *)
(*    data    : the expression that computes its values from the files,    *)
(*    crs     : the crs attribute ("" when the array carries none)]        *)
(* Coordinates are integers in CRS units (metres).  For the tutorial's     *)
(* location (UTM, |x| < 2^19, |y| < 2^23) every quantity the notebook      *)
(* computes from x_center, y_center, 15000, 200 and 1000 stays in the      *)
(* binade of its operands, so IEEE double arithmetic on them is exact and  *)
(* integer arithmetic models it.                                           *)
(***************************************************************************)
EXTENDS Integers, Sequences, FiniteSets, TLC

VARIABLES pc, ns, error

vars == <<pc, ns, error>>

---------------------------------------------------------------------------
(* Bounds of the inputs: the two raster files and the transformed point.   *)

MaxOffset == 1      \* a raster's first x / y coordinate is in 0..MaxOffset
MaxStep   == 2      \* a raster's resolution is in 1..MaxStep
MaxCount  == 3      \* a raster has 2..MaxCount cells along each axis
MaxShift  == 1      \* x_center and y_center are in 0..MaxShift
MaxPixel  == 1      \* a band's value at a pixel is in 0..MaxPixel

---------------------------------------------------------------------------
(* numpy and pandas operations the cells call.                             *)

\* ceil(a / b) for b > 0, and 0 when a <= 0.
CeilDiv(a, b) == IF a <= 0 THEN 0 ELSE (a + b - 1) \div b

\* A range that also takes the values up to and including stop.
arange_closed(start, stop, step) ==
    [i \in 1..((stop - start) \div step + 1) |-> start + (i - 1) * step]

\* np.arange(start, stop, step): the ceil((stop - start) / step) values
\* start, start + step, start + 2 * step, ...
arange(start, stop, step) ==
    [i \in 1..CeilDiv(stop - start, step) |-> start + (i - 1) * step]

Range(s) == {s[i] : i \in DOMAIN s}

\* s[1:]
ButFirst(s) == IF Len(s) = 0 THEN s ELSE SubSeq(s, 2, Len(s))

\* s[:-1]
ButLast(s) == IF Len(s) = 0 THEN s ELSE SubSeq(s, 1, Len(s) - 1)

IsMember(v, s) == \E i \in DOMAIN s : s[i] = v

RECURSIVE SortSet(_)
SortSet(S) ==
    IF S = {} THEN << >>
    ELSE LET m == CHOOSE v \in S : \A w \in S : v <= w
         IN  <<m>> \o SortSet(S \ {m})

\* Index.union: the labels either index has, sorted (equal indexes are
\* kept as they are).
OuterJoin(a, b) == IF a = b THEN a ELSE SortSet(Range(a) \cup Range(b))

\* Index.intersection: the labels both indexes have, in the left one's
\* order.
InnerJoin(a, b) == SelectSeq(a, LAMBDA v : IsMember(v, b))

\* bins.searchsorted(v, side='left'): how many of the sorted edges are
\* < v, by bisection of bins[lo+1 .. hi].
RECURSIVE bisect_left(_, _, _, _)
bisect_left(bins, v, lo, hi) ==
    IF lo >= hi THEN lo
    ELSE LET mid == (lo + hi) \div 2
         IN  IF bins[mid + 1] < v
             THEN bisect_left(bins, v, mid + 1, hi)
             ELSE bisect_left(bins, v, lo, mid)

searchsorted(bins, v) == bisect_left(bins, v, 0, Len(bins))

\* The code pandas gives a value that is in no bin (NaN; pandas' -1).
NoBin == 0

\* pd.cut(v, bins) with its defaults right=True, include_lowest=False: the
\* number i of the bin (bins[i], bins[i+1]] that holds v, NoBin when v is
\* in none (v <= bins[1] or v > bins[-1]).
cut(v, bins) ==
    LET ids == searchsorted(bins, v)
    IN  IF ids = 0 \/ ids = Len(bins) THEN NoBin ELSE ids

---------------------------------------------------------------------------
(* The raster files of ../catalog.yml and what intake reads from them.     *)

\* The band labels of a raster file.
Bands == 3..5

CrsAttr == "+init=epsg:32611"

\* A raster file: n by n square cells of side step, the first at (x0, y0).
Rasters ==
    [x0 : 0..MaxOffset, y0 : 0..MaxOffset, step : 1..MaxStep, n : 2..MaxCount]

\* The raster the others are compared with.
ReferenceRaster == [x0 |-> 0, y0 |-> 0, step |-> 1, n |-> MaxCount]

\* The pairs (Landsat 5 file, Landsat 8 file) of the whole run: the second
\* is any raster, offset, coarser or smaller than the first.
Catalogs == {ReferenceRaster} \X Rasters

\* entry.read_chunked(): a lazy (dask-backed) DataArray over the file.
read_chunked(name, f) ==
    [x    |-> arange(f.x0, f.x0 + f.n * f.step, f.step),
     y    |-> arange(f.y0, f.y0 + f.n * f.step, f.step),
     band |-> Bands,
     lazy |-> TRUE,
     data |-> [op |-> "read", src |-> name],
     crs  |-> CrsAttr]

---------------------------------------------------------------------------
(* xarray operations.                                                      *)

\* da.sel(band=b): the band dim is dropped.
sel(a, b) ==
    [a EXCEPT !.band = {}, !.data = [op |-> "sel", a |-> a.data, band |-> b]]

\* An arithmetic operation that keeps the labels either operand has.
binop_outer(op, a, b) ==
    [x    |-> OuterJoin(a.x, b.x),
     y    |-> OuterJoin(a.y, b.y),
     band |-> a.band \cup b.band,
     lazy |-> a.lazy \/ b.lazy,
     data |-> [op |-> op, a |-> a.data, b |-> b.data],
     crs  |-> ""]

\* a - b, a + b, a / b: the operands are aligned with join="inner" along
\* every dim, the result is lazy when an operand is, attrs are dropped.
binop(op, a, b) ==
    [x    |-> InnerJoin(a.x, b.x),
     y    |-> InnerJoin(a.y, b.y),
     band |-> a.band \cap b.band,
     lazy |-> a.lazy \/ b.lazy,
     data |-> [op |-> op, a |-> a.data, b |-> b.data],
     crs  |-> ""]

\* A load that returns a loaded copy and leaves the array as it was
\* (DataArray.compute()).
load_copy(a) == a

\* da.load(): the values are computed and kept in the array itself.
load(a) == [a EXCEPT !.lazy = FALSE]

\* An interpolation that leaves the array on its own coordinates.
interp_keep(a, newx, newy) ==
    [a EXCEPT !.data = [op |-> "interp", a |-> a.data]]

\* da.interp(x=newx, y=newy): the array on the coordinates newx, newy.
interp(a, newx, newy) ==
    [a EXCEPT !.x = newx, !.y = newy,
              !.data = [op |-> "interp", a |-> a.data]]

\* da.reindex(x=newx, y=newy)
reindex(a, newx, newy) == [a EXCEPT !.x = newx, !.y = newy]

\* xr.Dataset({n1: a1, n2: a2}): the variables are aligned with
\* join="outer" and share the coordinates.
Dataset(n1, a1, n2, a2) ==
    LET jx == OuterJoin(a1.x, a2.x)
        jy == OuterJoin(a1.y, a2.y)
    IN  [x |-> jx, y |-> jy,
         data_vars |-> (n1 :> reindex(a1, jx, jy)) @@ (n2 :> reindex(a2, jx, jy))]

\* ds[name]
getitem(ds, name) == ds.data_vars[name]

\* da.groupby_bins(dim, bins, labels=labels).mean(dim=dim) followed by the
\* rename of <dim>_bins to dim: the coordinate along dim becomes the bins'
\* labels, and the value of a bin is the mean of the cells whose
\* coordinate pd.cut puts in it (codes[k] is the bin of a[dim][k]).
groupby_bins_mean(a, dim, bins, labels) ==
    [a EXCEPT ![dim] = labels,
              !.data = [op    |-> "binmean", a |-> a.data, dim |-> dim,
                        codes |-> [k \in DOMAIN a[dim] |-> cut(a[dim][k], bins)]]]

\* pd.cut raises ValueError unless there is one label per bin.
cut_raises(bins, labels) == Len(bins) < 2 \/ Len(labels) # Len(bins) - 1

---------------------------------------------------------------------------
(* The value of an array at one pixel, computed from the files' values at  *)
(* that pixel.  px[src][b] is band b of file src there; a value is the     *)
(* fraction <<numerator, denominator>>, not finite when the denominator    *)
(* is 0.                                                                   *)

RECURSIVE Eval(_, _)
Eval(e, px) ==
    CASE e.op = "sel" -> <<px[e.a.src][e.band], 1>>
      [] e.op = "add" ->
            LET p == Eval(e.a, px)  q == Eval(e.b, px)
            IN  <<p[1] * q[2] + q[1] * p[2], p[2] * q[2]>>
      [] e.op = "sub" ->
            LET p == Eval(e.a, px)  q == Eval(e.b, px)
            IN  <<p[1] * q[2] - q[1] * p[2], p[2] * q[2]>>
      [] e.op = "div" ->
            LET p == Eval(e.a, px)  q == Eval(e.b, px)
            IN  <<p[1] * q[2], p[2] * q[1]>>

\* The (file, band) pairs an expression reads.
RECURSIVE Leaves(_)
Leaves(e) ==
    CASE e.op = "sel"  -> {<<e.a.src, e.band>>}
      [] e.op \in {"add", "sub", "div"} -> Leaves(e.a) \cup Leaves(e.b)
      [] e.op \in {"interp", "binmean"} -> Leaves(e.a)

\* Equality of two values.
SameValue(p, q) ==
    IF p[2] = 0 \/ q[2] = 0 THEN p[2] = 0 /\ q[2] = 0
    ELSE p[1] * q[2] = q[1] * p[2]

---------------------------------------------------------------------------
(* The kernel's namespace.                                                 *)

\* name = val
Assign(n, name, val) == (name :> val) @@ n

\* The names a code cell reads before it assigns them itself; cells are
\* numbered 1..NCells in the order of the file.
Reads(k) ==
    CASE k = 2  -> {"intake"}
      [] k = 3  -> {"landsat_8_da"}
      [] k = 4  -> {"landsat_5_da"}
      [] k = 5  -> {"landsat_8_da"}
      [] k = 6  -> {"NDVI_2017", "NDVI_1988"}
      [] k = 7  -> {"diff"}
      [] k = 8  -> {"NDVI_1988", "NDVI_2017"}
      [] k = 9  -> {"NDVI_1988", "NDVI_2017"}
      [] k = 10 -> {"landsat_8_da"}
      [] k = 11 -> {"gv", "landsat_8_da"}
      [] k = 12 -> {"crs", "ccrs"}
      [] k = 13 -> {"x_center", "y_center"}
      [] k = 14 -> {"gv", "bounding_box", "crs"}
      [] k = 15 -> {"np", "xmin", "xmax", "ymin", "ymax"}
      [] k = 16 -> {"NDVI_1988", "NDVI_2017"}
      [] k = 17 -> {"NDVI_2017", "NDVI_1988", "x", "y"}
      [] k = 18 -> {"xr", "NDVI_1988_regridded", "NDVI_2017_regridded"}
      [] k = 19 -> {"ds_regridded", "crs"}
      [] k = 20 -> {"ds_regridded"}
      [] k = 21 -> {"diff_regridded", "crs"}
      [] k = 22 -> {"np", "xmin", "xmax", "res", "ymin", "ymax"}
      [] k = 23 -> {"diff_regridded", "x_1000", "x", "y_1000", "y"}
      [] OTHER  -> {}

NCells == 24

\* Run All: after cell k comes cell k + 1.
NextCell(k) == k + 1

\* Cell k reads its names and leaves the namespace newns; a name that is
\* not bound raises NameError, and an exception stops the run.
Run(k, newns) ==
    /\ pc = k
    /\ error = "none"
    /\ IF Reads(k) \subseteq DOMAIN ns
       THEN /\ ns' = newns
            /\ pc' = NextCell(k)
            /\ error' = "none"
       ELSE /\ error' = "NameError"
            /\ UNCHANGED <<pc, ns>>

\* Cell k raises exc.
Raise(k, exc) ==
    /\ pc = k
    /\ error = "none"
    /\ error' = exc
    /\ UNCHANGED <<pc, ns>>

---------------------------------------------------------------------------
(* The code cells: what each leaves in the namespace n.                    *)

\* import intake, numpy as np, xarray as xr, holoviews as hv,
\* cartopy.crs as ccrs, geoviews as gv, hvplot.xarray
Imports(n) ==
    [m \in {"intake", "np", "xr", "hv", "ccrs", "gv", "hvplot"} |-> "module"] @@ n

\* cat = intake.open_catalog(...); landsat_*_da = cat.<entry>.read_chunked()
LoadData(n, f5, f8) ==
    LET n1 == Assign(n, "cat", [landsat_5_small |-> f5, landsat_8_small |-> f8])
        n2 == Assign(n1, "landsat_5_da",
                     read_chunked("landsat_5_small", n1["cat"].landsat_5_small))
    IN  Assign(n2, "landsat_8_da",
               read_chunked("landsat_8_small", n1["cat"].landsat_8_small))

\* (da.sel(band=nir) - da.sel(band=red)) / (da.sel(band=nir) + da.sel(band=red))
NormDiff(da, nir, red) ==
    binop("div", binop("sub", sel(da, nir), sel(da, red)),
                 binop("add", sel(da, nir), sel(da, red)))

\* The index computed from the wrong pair of bands.
Ndvi1988_wrong_bands(n) ==
    Assign(n, "NDVI_1988", NormDiff(n["landsat_5_da"], 5, 4))

\* NDVI_1988 = ... landsat_5_da, bands 4 and 3
Ndvi1988(n) == Assign(n, "NDVI_1988", NormDiff(n["landsat_5_da"], 4, 3))

\* NDVI_2017 = ... landsat_8_da, bands 5 and 4
Ndvi2017(n) == Assign(n, "NDVI_2017", NormDiff(n["landsat_8_da"], 5, 4))

\* diff = NDVI_2017 - NDVI_1988
Diff(n) == Assign(n, "diff", binop("sub", n["NDVI_2017"], n["NDVI_1988"]))

\* gv.util.proj_to_cartopy(proj4 string)
proj_to_cartopy(s) == [proj4 |-> s]

\* crs = gv.util.proj_to_cartopy(landsat_8_da.crs)
Crs(n) == Assign(n, "crs", proj_to_cartopy(n["landsat_8_da"].crs))

\* The points crs.transform_point may give for the tutorial's lon, lat.
Centers == (0..MaxShift) \X (0..MaxShift)

\* x_center, y_center = crs.transform_point(...)
Center(n, c) == Assign(Assign(n, "x_center", c[1]), "y_center", c[2])

\* A box whose upper x edge is computed with the wrong sign.
BoundingBox_wrong_sign(n) ==
    LET buffer == 15000
        xmin == n["x_center"] - buffer
        xmax == n["x_center"] - buffer
        ymin == n["y_center"] - buffer
        ymax == n["y_center"] + buffer
    IN  [v \in {"buffer"} |-> buffer] @@ [v \in {"xmin"} |-> xmin]
        @@ [v \in {"xmax"} |-> xmax] @@ [v \in {"ymin"} |-> ymin]
        @@ [v \in {"ymax"} |-> ymax]
        @@ [v \in {"bounding_box"} |->
              <<<<xmin, ymin>>, <<xmin, ymax>>, <<xmax, ymax>>, <<xmax, ymin>>>>]
        @@ n

\* buffer = 1.5e4; xmin, xmax, ymin, ymax = center -+ buffer;
\* bounding_box = [[[xmin, ymin], [xmin, ymax], [xmax, ymax], [xmax, ymin]]]
BoundingBox(n) ==
    LET buffer == 15000
        xmin == n["x_center"] - buffer
        xmax == n["x_center"] + buffer
        ymin == n["y_center"] - buffer
        ymax == n["y_center"] + buffer
    IN  [v \in {"buffer"} |-> buffer] @@ [v \in {"xmin"} |-> xmin]
        @@ [v \in {"xmax"} |-> xmax] @@ [v \in {"ymin"} |-> ymin]
        @@ [v \in {"ymax"} |-> ymax]
        @@ [v \in {"bounding_box"} |->
              <<<<xmin, ymin>>, <<xmin, ymax>>, <<xmax, ymax>>, <<xmax, ymin>>>>]
        @@ n

\* A grid cell that forgets to build y.
Grid_no_y(n) ==
    LET n1 == Assign(n, "res", 200)
    IN  Assign(n1, "x", arange(n1["xmin"], n1["xmax"], n1["res"]))

\* res = 200; x = np.arange(xmin, xmax, res); y = np.arange(ymin, ymax, res)
Grid(n) ==
    LET n1 == Assign(n, "res", 200)
        n2 == Assign(n1, "x", arange(n1["xmin"], n1["xmax"], n1["res"]))
    IN  Assign(n2, "y", arange(n2["ymin"], n2["ymax"], n2["res"]))

\* NDVI_1988.load(); NDVI_2017.load()
Load(n) ==
    LET n1 == Assign(n, "NDVI_1988", load(n["NDVI_1988"]))
    IN  Assign(n1, "NDVI_2017", load(n1["NDVI_2017"]))

\* interp is not supported for dask arrays.
InterpRaises(n) == n["NDVI_2017"].lazy \/ n["NDVI_1988"].lazy

\* NDVI_2017_regridded = NDVI_2017.interp(x=x, y=y); the same for 1988
Regrid(n) ==
    LET n1 == Assign(n, "NDVI_2017_regridded",
                     interp(n["NDVI_2017"], n["x"], n["y"]))
    IN  Assign(n1, "NDVI_1988_regridded",
               interp(n1["NDVI_1988"], n1["x"], n1["y"]))

\* ds_regridded = xr.Dataset({'NDVI_1988': ..., 'NDVI_2017': ...})
Combine(n) ==
    Assign(n, "ds_regridded",
           Dataset("NDVI_1988", n["NDVI_1988_regridded"],
                   "NDVI_2017", n["NDVI_2017_regridded"]))

\* diff_regridded = ds_regridded['NDVI_2017'] - ds_regridded['NDVI_1988']
DiffRegridded(n) ==
    Assign(n, "diff_regridded",
           binop("sub", getitem(n["ds_regridded"], "NDVI_2017"),
                        getitem(n["ds_regridded"], "NDVI_1988")))

\* res_1000 = 1e3; x_1000 = np.arange(xmin, xmax, res);
\* y_1000 = np.arange(ymin, ymax, res)
ResampleEdges(n) ==
    LET n1 == Assign(n, "res_1000", 1000)
        n2 == Assign(n1, "x_1000", arange(n1["xmin"], n1["xmax"], n1["res"]))
    IN  Assign(n2, "y_1000", arange(n2["ymin"], n2["ymax"], n2["res"]))

\* The first or the second pd.cut of the resampling raises.
ResampleRaises(n) ==
    \/ cut_raises(n["x_1000"], ButLast(n["x"]))
    \/ cut_raises(n["y_1000"], ButLast(n["y"]))

\* diff_res_1000 = diff_regridded.groupby_bins('x', x_1000, labels=x[:-1])
\*   .mean(dim='x').groupby_bins('y', y_1000, labels=y[:-1]).mean(dim='y')
\*   .rename(x_bins='x', y_bins='y')
Resample(n) ==
    Assign(n, "diff_res_1000",
           groupby_bins_mean(
               groupby_bins_mean(n["diff_regridded"], "x", n["x_1000"], ButLast(n["x"])),
               "y", n["y_1000"], ButLast(n["y"])))

---------------------------------------------------------------------------
(* The run.                                                                *)

Init ==
    /\ pc = 1
    /\ ns = << >>
    /\ error = "none"

CellImports    == Run(1, Imports(ns))
CellLoadData   == \E c \in Catalogs : Run(2, LoadData(ns, c[1], c[2]))
CellShowData   == Run(3, ns)
CellNdvi1988   == Run(4, Ndvi1988(ns))
CellNdvi2017   == Run(5, Ndvi2017(ns))
CellDiff       == Run(6, Diff(ns))
CellDiffShape  == Run(7, ns)
CellFirstX     == Run(8, ns)
CellResolution == Run(9, ns)
CellShowCrs    == Run(10, ns)
CellCrs        == Run(11, Crs(ns))
CellCenter     == \E c \in Centers : Run(12, Center(ns, c))
CellBoundingBox == Run(13, BoundingBox(ns))
CellShowBox    == Run(14, ns)
CellGrid       == Run(15, Grid(ns))
CellLoad       == Run(16, Load(ns))
CellRegrid     ==
    IF Reads(17) \subseteq DOMAIN ns /\ InterpRaises(ns)
    THEN Raise(17, "NotImplementedError")
    ELSE Run(17, Regrid(ns))
CellCombine    == Run(18, Combine(ns))
CellShowBoth   == Run(19, ns)
CellDiffRegridded == Run(20, DiffRegridded(ns))
CellShowDiff   == Run(21, ns)
CellResampleEdges == Run(22, ResampleEdges(ns))
CellResample   ==
    IF Reads(23) \subseteq DOMAIN ns /\ ResampleRaises(ns)
    THEN Raise(23, "ValueError")
    ELSE Run(23, Resample(ns))
CellExercise   == Run(24, ns)

Next ==
    \/ CellImports
    \/ CellLoadData
    \/ CellShowData
    \/ CellNdvi1988
    \/ CellNdvi2017
    \/ CellDiff
    \/ CellDiffShape
    \/ CellFirstX
    \/ CellResolution
    \/ CellShowCrs
    \/ CellCrs
    \/ CellCenter
    \/ CellBoundingBox
    \/ CellShowBox
    \/ CellGrid
    \/ CellLoad
    \/ CellRegrid
    \/ CellCombine
    \/ CellShowBoth
    \/ CellDiffRegridded
    \/ CellShowDiff
    \/ CellResampleEdges
    \/ CellResample
    \/ CellExercise

Spec == Init /\ [][Next]_vars

\* The subtraction of the two un-regridded arrays, from the state the
\* first five cells leave for any pair of raster files.
InitDiff ==
    \E f5 \in Rasters, f8 \in Rasters :
        /\ pc = 6
        /\ ns = Ndvi2017(Ndvi1988(LoadData(Imports(<< >>), f5, f8)))
        /\ error = "none"

NextDiff ==
    \/ CellDiff
    \/ CellDiffShape

SpecDiff == InitDiff /\ [][NextDiff]_vars

---------------------------------------------------------------------------
(* Properties.                                                             *)

\* The names of the sequential-execution contract.
ContractNames ==
    {"cat", "landsat_5_da", "landsat_8_da", "NDVI_1988", "NDVI_2017", "diff",
     "crs", "x_center", "y_center", "xmin", "xmax", "ymin", "ymax", "res",
     "x", "y", "NDVI_1988_regridded", "NDVI_2017_regridded", "ds_regridded",
     "diff_regridded", "x_1000", "y_1000"}

\* C1: in the top-to-bottom run every name a cell reads has been assigned
\* before: the cell about to run finds all the names it reads in the
\* namespace, no cell raises NameError, and when the last cell has run
\* every name of the contract is bound.
C1_AssignedBeforeRead ==
    /\ error # "NameError"
    /\ pc \in 1..NCells => Reads(pc) \subseteq DOMAIN ns
    /\ pc > NCells => ContractNames \subseteq DOMAIN ns

C1_Witness ==
    /\ pc = NCells + 1
    /\ error = "none"
    /\ ContractNames \subseteq DOMAIN ns

\* The number of cells of an array.
Size(a) == Len(a.x) * Len(a.y)

DifferentGrids(a, b) == a.x # b.x /\ a.y # b.y /\ Len(a.x) # Len(b.x)

\* C2: after the regrid step both regridded arrays have exactly the
\* coordinate arrays x and y, whatever the source grids; ds_regridded, its
\* two variables and diff_regridded have them too, so each holds len(x) by
\* len(y) cells.
C2_SameGrid ==
    /\ (pc > 17 /\ error = "none") =>
          /\ ns["NDVI_1988_regridded"].x = ns["x"]
          /\ ns["NDVI_1988_regridded"].y = ns["y"]
          /\ ns["NDVI_2017_regridded"].x = ns["x"]
          /\ ns["NDVI_2017_regridded"].y = ns["y"]
    /\ (pc > 18 /\ error = "none") =>
          /\ ns["ds_regridded"].x = ns["x"]
          /\ ns["ds_regridded"].y = ns["y"]
          /\ \A v \in DOMAIN ns["ds_regridded"].data_vars :
                /\ ns["ds_regridded"].data_vars[v].x = ns["x"]
                /\ ns["ds_regridded"].data_vars[v].y = ns["y"]
    /\ (pc > 20 /\ error = "none") =>
          /\ ns["diff_regridded"].x = ns["x"]
          /\ ns["diff_regridded"].y = ns["y"]
          /\ Size(ns["diff_regridded"]) = Len(ns["x"]) * Len(ns["y"])

C2_Witness ==
    /\ pc = 21
    /\ error = "none"
    /\ DifferentGrids(ns["NDVI_1988"], ns["NDVI_2017"])
    /\ Size(ns["diff_regridded"]) = 150 * 150
    /\ Size(ns["diff"]) < Size(ns["NDVI_1988"])

Spaced(s, d) == \A i \in 1..(Len(s) - 1) : s[i + 1] - s[i] = d

\* The codes of the cut along x and along y in diff_res_1000.
XCodes == ns["diff_res_1000"].data.a.codes
YCodes == ns["diff_res_1000"].data.codes

\* C3: the resampling step bins diff_regridded at the resolution
\* res_1000 = 1000: the bin edges x_1000 and y_1000 are spaced res_1000
\* apart over [xmin, xmax) and [ymin, ymax), and diff_res_1000 has fewer
\* cells along x and along y than diff_regridded.
C3_BinsAtRes1000 ==
    /\ (pc > 22 /\ error = "none") =>
          /\ ns["res_1000"] = 1000
          /\ Spaced(ns["x_1000"], ns["res_1000"])
          /\ Spaced(ns["y_1000"], ns["res_1000"])
          /\ \A v \in Range(ns["x_1000"]) : ns["xmin"] <= v /\ v < ns["xmax"]
          /\ \A v \in Range(ns["y_1000"]) : ns["ymin"] <= v /\ v < ns["ymax"]
    /\ (pc > 23 /\ error = "none") =>
          /\ Len(ns["diff_res_1000"].x) < Len(ns["diff_regridded"].x)
          /\ Len(ns["diff_res_1000"].y) < Len(ns["diff_regridded"].y)

\* The labels of a that b lacks.
Lacking(a, b) == Range(a) \ Range(b)

IsIntersection(d, a, b) ==
    /\ Range(d) = Range(a) \cap Range(b)
    /\ Len(d) = Cardinality(Range(d))

\* C4 as stated: the coordinates of diff along x and y are the
\* intersection of the operands' coordinates, diff is no larger than
\* either operand along any axis, and along an axis where the two grids
\* differ it is strictly smaller than either operand.
C4_StrictlySmallerThanEither ==
    (pc > 6 /\ error = "none") =>
        LET d == ns["diff"]  a == ns["NDVI_2017"]  b == ns["NDVI_1988"]
        IN  /\ IsIntersection(d.x, a.x, b.x)
            /\ IsIntersection(d.y, a.y, b.y)
            /\ Len(d.x) <= Len(a.x) /\ Len(d.x) <= Len(b.x)
            /\ Len(d.y) <= Len(a.y) /\ Len(d.y) <= Len(b.y)
            /\ a.x # b.x => Len(d.x) < Len(a.x) /\ Len(d.x) < Len(b.x)
            /\ a.y # b.y => Len(d.y) < Len(a.y) /\ Len(d.y) < Len(b.y)

\* C4, amended: the coordinates of diff along x and y are the
\* intersection of the operands' coordinates, diff is no larger than
\* either operand along any axis, and along an axis where the two grids
\* differ it is strictly smaller than at least one operand: than each
\* operand that has a coordinate the other lacks, and only than those.
C4_Intersection ==
    (pc > 6 /\ error = "none") =>
        LET d == ns["diff"]  a == ns["NDVI_2017"]  b == ns["NDVI_1988"]
        IN  /\ IsIntersection(d.x, a.x, b.x)
            /\ IsIntersection(d.y, a.y, b.y)
            /\ Len(d.x) <= Len(a.x) /\ Len(d.x) <= Len(b.x)
            /\ Len(d.y) <= Len(a.y) /\ Len(d.y) <= Len(b.y)
            /\ a.x # b.x => Len(d.x) < Len(a.x) \/ Len(d.x) < Len(b.x)
            /\ a.y # b.y => Len(d.y) < Len(a.y) \/ Len(d.y) < Len(b.y)
            /\ Len(d.x) < Len(a.x) <=> Lacking(a.x, b.x) # {}
            /\ Len(d.x) < Len(b.x) <=> Lacking(b.x, a.x) # {}
            /\ Len(d.y) < Len(a.y) <=> Lacking(a.y, b.y) # {}
            /\ Len(d.y) < Len(b.y) <=> Lacking(b.y, a.y) # {}

\* One grid's x coordinates are a proper part of the other's.
C4_Witness ==
    /\ pc = 7
    /\ error = "none"
    /\ ns["NDVI_2017"].x # ns["NDVI_1988"].x
    /\ Lacking(ns["NDVI_2017"].x, ns["NDVI_1988"].x) = {}
    /\ ns["diff"].x = ns["NDVI_2017"].x
    /\ Len(ns["diff"].y) < Len(ns["NDVI_2017"].y)
    /\ Len(ns["diff"].y) < Len(ns["NDVI_1988"].y)

\* C5: the region of interest is a 30 km square box around the center:
\* buffer = 15000, xmax - xmin = ymax - ymin = 2 * buffer = 30000, the
\* center is the midpoint of [xmin, xmax] and of [ymin, ymax], and
\* bounding_box is the ring (xmin, ymin), (xmin, ymax), (xmax, ymax),
\* (xmax, ymin), each corner once.
C5_Box ==
    (pc > 13 /\ error = "none") =>
        /\ ns["buffer"] = 15000
        /\ ns["xmax"] - ns["xmin"] = 2 * ns["buffer"]
        /\ ns["ymax"] - ns["ymin"] = 2 * ns["buffer"]
        /\ 2 * ns["buffer"] = 30 * 1000
        /\ ns["xmin"] + ns["xmax"] = 2 * ns["x_center"]
        /\ ns["ymin"] + ns["ymax"] = 2 * ns["y_center"]
        /\ ns["bounding_box"] =
              << <<ns["xmin"], ns["ymin"]>>, <<ns["xmin"], ns["ymax"]>>,
                 <<ns["xmax"], ns["ymax"]>>, <<ns["xmax"], ns["ymin"]>> >>
        /\ Cardinality(Range(ns["bounding_box"])) = 4

C5_Witness ==
    /\ pc = 14
    /\ error = "none"
    /\ ns["x_center"] # ns["y_center"]
    /\ ns["bounding_box"][3] = <<ns["x_center"] + 15000, ns["y_center"] + 15000>>

\* The values of the bands of the two files at one pixel.
Pixels == [Bands -> 0..MaxPixel]

\* (NIR - Red) / (NIR + Red)
Index(nir, red) == <<nir - red, nir + red>>

\* C6: at every pixel NDVI_1988 is (NIR - Red) / (NIR + Red) of Landsat 5's
\* band 3 (Red) and band 4 (NIR) and NDVI_2017 that of Landsat 8's band 4
\* (Red) and band 5 (NIR); each reads those two bands of its own file and
\* nothing else.
C6_Ndvi ==
    (pc > 5 /\ error = "none") =>
        /\ Leaves(ns["NDVI_1988"].data) =
              {<<"landsat_5_small", 3>>, <<"landsat_5_small", 4>>}
        /\ Leaves(ns["NDVI_2017"].data) =
              {<<"landsat_8_small", 4>>, <<"landsat_8_small", 5>>}
        /\ \A p \in Pixels :
              /\ SameValue(Eval(ns["NDVI_1988"].data, [landsat_5_small |-> p]),
                           Index(p[4], p[3]))
              /\ SameValue(Eval(ns["NDVI_2017"].data, [landsat_8_small |-> p]),
                           Index(p[5], p[4]))

C6_Witness ==
    /\ pc = 6
    /\ error = "none"
    /\ \E p5 \in Pixels, p8 \in Pixels :
          LET px == [landsat_5_small |-> p5, landsat_8_small |-> p8]
          IN  /\ Eval(ns["NDVI_1988"].data, px)[2] # 0
              /\ p5[3] # p5[5]
              /\ ~SameValue(Eval(ns["NDVI_1988"].data, px),
                            Eval(ns["NDVI_2017"].data, px))

\* C7: interpolation is never invoked on a lazy array: NDVI_1988 and
\* NDVI_2017, lazy since they were computed, are materialized by the load
\* cell, are not lazy when the interp cell runs or at any later point, and
\* the interp cell never raises.
C7_LoadedBeforeInterp ==
    /\ error # "NotImplementedError"
    /\ (pc \in 6..16 /\ error = "none") =>
          ns["NDVI_1988"].lazy /\ ns["NDVI_2017"].lazy
    /\ (pc > 16 /\ error = "none") =>
          ~ns["NDVI_1988"].lazy /\ ~ns["NDVI_2017"].lazy

C7_Witness ==
    /\ pc = 18
    /\ error = "none"
    /\ ~ns["NDVI_1988"].lazy
    /\ ~ns["NDVI_2017"].lazy
    /\ ns["landsat_5_da"].lazy
    /\ "NDVI_1988_regridded" \in DOMAIN ns

HalfOpenGrid(s, lo, hi, d) ==
    /\ Len(s) > 0
    /\ s[1] = lo
    /\ Spaced(s, d)
    /\ \A v \in Range(s) : lo <= v /\ v < hi
    /\ ~IsMember(hi, s)
    /\ s[Len(s)] + d >= hi
    /\ Len(s) = CeilDiv(hi - lo, d)

\* C8: the new grid is half-open inside the region of interest: x starts
\* at xmin, consecutive values differ by res = 200, every value v has
\* xmin <= v < xmax, xmax is no grid point, and there are
\* ceil((xmax - xmin) / res) = 150 points; the same for y over
\* [ymin, ymax).
C8_HalfOpenGrid ==
    (pc > 15 /\ error = "none") =>
        /\ ns["res"] = 200
        /\ HalfOpenGrid(ns["x"], ns["xmin"], ns["xmax"], ns["res"])
        /\ HalfOpenGrid(ns["y"], ns["ymin"], ns["ymax"], ns["res"])
        /\ Len(ns["x"]) = 150
        /\ Len(ns["y"]) = 150

C8_Witness ==
    /\ pc = 16
    /\ error = "none"
    /\ ns["x"][150] = ns["xmax"] - 200
    /\ ns["y"][1] = ns["ymin"]
    /\ ns["x"] # ns["y"]

\* C9: in the resampling step every bin is labelled with its left edge:
\* there are as many labels x[:-1] as bins, len(x_1000) - 1, and bin i,
\* the cells whose coordinate lies between the edges x_1000[i] (excluded)
\* and x_1000[i+1] (included), gets the label x[i] = x_1000[i]; the same
\* for y.
C9_LeftEdgeLabels ==
    (pc > 23 /\ error = "none") =>
        /\ Len(ButLast(ns["x"])) = Len(ns["x_1000"]) - 1
        /\ Len(ButLast(ns["y"])) = Len(ns["y_1000"]) - 1
        /\ Len(ns["diff_res_1000"].x) = Len(ns["x_1000"]) - 1
        /\ Len(ns["diff_res_1000"].y) = Len(ns["y_1000"]) - 1
        /\ \A i \in DOMAIN ns["diff_res_1000"].x :
              /\ ns["diff_res_1000"].x[i] = ns["x"][i]
              /\ ns["diff_res_1000"].x[i] = ns["x_1000"][i]
        /\ \A i \in DOMAIN ns["diff_res_1000"].y :
              /\ ns["diff_res_1000"].y[i] = ns["y"][i]
              /\ ns["diff_res_1000"].y[i] = ns["y_1000"][i]
        /\ \A k \in DOMAIN XCodes : XCodes[k] # NoBin =>
              /\ ns["x_1000"][XCodes[k]] < ns["diff_regridded"].x[k]
              /\ ns["diff_regridded"].x[k] <= ns["x_1000"][XCodes[k] + 1]
        /\ \A k \in DOMAIN YCodes : YCodes[k] # NoBin =>
              /\ ns["y_1000"][YCodes[k]] < ns["diff_regridded"].y[k]
              /\ ns["diff_regridded"].y[k] <= ns["y_1000"][YCodes[k] + 1]

C9_Witness ==
    /\ pc = 24
    /\ error = "none"
    /\ Len(ns["diff_res_1000"].x) = 149
    /\ ns["diff_res_1000"].x[1] = ns["xmin"]
    /\ ns["diff_res_1000"].y[149] = ns["y_1000"][149]
    /\ XCodes[150] = 149

====
